---- MODULE Spec2Model ----
(***************************************************************************)
(* Model of Game.cpp: the light set (GenerateLights, the debug-UI light    *)
(* editor), the frame cycle (Update, Draw, DrawPointLights, DrawUI) and    *)
(* OnResize.                                                               *)
(*                                                                         *)
(* Scalars (float) are exact rationals: a value v is the integer           *)
(* v * 100 * RAND_MAX, so that rand() / RAND_MAX * (max - min) + min is    *)
(* computed without rounding.                                              *)
(***************************************************************************)
EXTENDS Integers, Sequences, FiniteSets, TLC

\* ---------------------------------------------------------------- bounds
\* Largest value rand() returns (stdlib.h; 32767 with the MSVC runtime).
RAND_MAX == 2
\* The capacity Init assigns to lightCount (Game.cpp:108 assigns 32) ranges
\* over 0..MaxCapacity: the capacities below the three directional lights,
\* exactly three, and every larger one up to the bound.
MaxCapacity == 4
\* Debug-UI drags (one widget is active per frame) allowed in one run.
MaxEdits == 1

Capacities == 0..MaxCapacity
\* The most lights a collection generated for one of Capacities holds.
MaxLights == IF MaxCapacity < 3 THEN 3 ELSE MaxCapacity

\* ------------------------------------------------------------ fixed point
\* n hundredths as a scalar: n/100 = (n * RAND_MAX) / (100 * RAND_MAX).
Hundredths(n) == n * RAND_MAX
Vec3(x, y, z) == <<Hundredths(x), Hundredths(y), Hundredths(z)>>

\* ------------------------------------------------------------ light types
LIGHT_TYPE_DIRECTIONAL == "Directional"
LIGHT_TYPE_POINT == "Point"
LIGHT_TYPE_SPOT == "Spot"

\* Light l = {}: every field zero (type tag 0 is LIGHT_TYPE_DIRECTIONAL).
ZeroLight ==
    [Type |-> LIGHT_TYPE_DIRECTIONAL, Direction |-> Vec3(0, 0, 0),
     Position |-> Vec3(0, 0, 0), Color |-> Vec3(0, 0, 0),
     Intensity |-> Hundredths(0), Range |-> Hundredths(0)]

\* ------------------------------------------------------------ random source
\* rand() is a deterministic sequence fixed by the seed srand() stored; the
\* generator steps through every value of 0..RAND_MAX.
RandNext(s) == (s + 1) % (RAND_MAX + 1)
\* The state after n calls of rand().
RECURSIVE RandSkip(_, _)
RandSkip(s, n) == IF n = 0 THEN s ELSE RandSkip(RandNext(s), n - 1)
\* The value the n-th next call of rand() returns (n >= 1).
rand(s, n) == RandSkip(s, n)

\* RandomRange(min, max) with rand() = r; min and max in hundredths.
RandomRangeNoMin(r, min, max) == r * max + Hundredths(min)
RandomRange(r, min, max) == r * (max - min) + Hundredths(min)

\* The order in which the build evaluates the three arguments of one
\* XMFLOAT3(RandomRange, RandomRange, RandomRange): the k-th argument gets the
\* ArgDraw-th of the three rand() calls.
ArgOrders == {"ltr", "rtl"}
ArgDraw(order, k) == IF order = "ltr" THEN k ELSE 4 - k

\* ------------------------------------------------------------ GenerateLights
dir1 ==
    [ZeroLight EXCEPT !.Type = LIGHT_TYPE_DIRECTIONAL,
                      !.Direction = Vec3(100, -100, 100),
                      !.Color = Vec3(80, 80, 80),
                      !.Intensity = Hundredths(100)]
dir2 ==
    [ZeroLight EXCEPT !.Type = LIGHT_TYPE_DIRECTIONAL,
                      !.Direction = Vec3(-100, -25, 0),
                      !.Color = Vec3(20, 20, 20),
                      !.Intensity = Hundredths(100)]
dir3 ==
    [ZeroLight EXCEPT !.Type = LIGHT_TYPE_DIRECTIONAL,
                      !.Direction = Vec3(0, -100, 100),
                      !.Color = Vec3(20, 20, 20),
                      !.Intensity = Hundredths(100)]

\* One random point light, drawn from random state s: eight rand() calls.
PointLight(s, order) ==
    [ZeroLight EXCEPT
        !.Type = LIGHT_TYPE_POINT,
        !.Position = <<RandomRange(rand(s, ArgDraw(order, 1)), -1000, 1000),
                       RandomRange(rand(s, ArgDraw(order, 2)), -500, 500),
                       RandomRange(rand(s, ArgDraw(order, 3)), -1000, 1000)>>,
        !.Color = <<RandomRange(rand(s, 3 + ArgDraw(order, 1)), 0, 100),
                    RandomRange(rand(s, 3 + ArgDraw(order, 2)), 0, 100),
                    RandomRange(rand(s, 3 + ArgDraw(order, 3)), 0, 100)>>,
        !.Range = RandomRange(rand(s, 7), 500, 1000),
        !.Intensity = RandomRange(rand(s, 8), 10, 300)]

\* The loop with the test lights.size() <= lightCount.
RECURSIVE CreateRestInclusive(_, _, _, _)
CreateRestInclusive(ls, count, s, order) ==
    IF Len(ls) <= count
    THEN CreateRestInclusive(Append(ls, PointLight(s, order)), count,
                             RandSkip(s, 8), order)
    ELSE [lights |-> ls, randState |-> s]
\* The loop stopping one light short of the capacity.
RECURSIVE CreateRestOneShort(_, _, _, _)
CreateRestOneShort(ls, count, s, order) ==
    IF Len(ls) + 1 < count
    THEN CreateRestOneShort(Append(ls, PointLight(s, order)), count,
                            RandSkip(s, 8), order)
    ELSE [lights |-> ls, randState |-> s]
\* while (lights.size() < lightCount) lights.push_back(point)
RECURSIVE CreateRest(_, _, _, _)
CreateRest(ls, count, s, order) ==
    IF Len(ls) < count
    THEN CreateRest(Append(ls, PointLight(s, order)), count, RandSkip(s, 8), order)
    ELSE [lights |-> ls, randState |-> s]

\* GenerateLights with the clear() left out.
GenerateLightsNoClear(prior, count, s, order) ==
    CreateRest(prior \o <<dir1, dir2, dir3>>, count, s, order)
\* GenerateLights with two directional lights only.
GenerateLightsTwoDir(prior, count, s, order) ==
    CreateRest(<<dir1, dir2>>, count, s, order)
\* GenerateLights keeping the directional lights the collection already holds.
GenerateLightsKeepDir(prior, count, s, order) ==
    CreateRest(IF Len(prior) >= 3 THEN SubSeq(prior, 1, 3) ELSE <<dir1, dir2, dir3>>,
               count, s, order)
\* GenerateLights assigning into the entries the collection already holds, the
\* intensity left as it was.
GenerateLightsInPlace(prior, count, s, order) ==
    LET g == CreateRest(<<dir1, dir2, dir3>>, count, s, order) IN
    [lights |-> [i \in 1..Len(g.lights) |->
                    IF i <= Len(prior)
                    THEN [g.lights[i] EXCEPT !.Intensity = prior[i].Intensity]
                    ELSE g.lights[i]],
     randState |-> g.randState]
\* GenerateLights: prior is the collection before the call, count is
\* lightCount, s the random state; the result is the new collection and state.
GenerateLights(prior, count, s, order) ==
    CreateRest(<<dir1, dir2, dir3>>, count, s, order)

\* ------------------------------------------------------------ Material
\* The slot names and the handles metal1PBR is set up with.
TextureNames == {"Albedo", "NormalMap", "RoughnessMap"}
TextureHandles == {"whiteA", "scratchedN"}
SamplerNames == {"BasicSampler", "ClampSampler"}
SamplerHandles == {"samplerOptions", "clampSamplerOptions"}
\* No handle: the slot is unbound, the name was never registered.
NoHandle == "none"

\* A binding table is a sequence of <<name, handle>> pairs in insertion order.
\* Registering a name the table holds overwrites its handle where it stands;
\* a new name is appended.
Overwrite(table, name, handle) ==
    IF \E i \in 1..Len(table) : table[i][1] = name
    THEN [i \in 1..Len(table) |->
             IF table[i][1] = name THEN <<name, handle>> ELSE table[i]]
    ELSE Append(table, <<name, handle>>)

\* AddTextureSRV assigning the table instead of adding to it.
AddTextureSRVAssign(table, name, handle) == <<<<name, handle>>>>
\* AddTextureSRV as an insert that leaves a name already registered alone.
AddTextureSRVInsert(table, name, handle) ==
    IF \E i \in 1..Len(table) : table[i][1] = name
    THEN table
    ELSE Append(table, <<name, handle>>)
\* Material::AddTextureSRV(name, handle)
AddTextureSRV(table, name, handle) == Overwrite(table, name, handle)
\* Material::AddSampler(name, handle)
AddSampler(table, name, handle) == Overwrite(table, name, handle)

\* A Material after construction: nothing registered.
NewMaterial == [textureSRVs |-> <<>>, samplers |-> <<>>]
NoHistory ==
    [textureSRVs |-> [n \in TextureNames |-> NoHandle],
     samplers |-> [n \in SamplerNames |-> NoHandle],
     overwrote |-> FALSE]

\* The handle a table's pushes leave in a slot: Bind pushes every pair of the
\* table in order, so the last pair of that name stays.
RECURSIVE SlotAfter(_, _, _)
SlotAfter(table, slot, bound) ==
    IF table = <<>> THEN bound
    ELSE SlotAfter(Tail(table), slot,
                   IF Head(table)[1] = slot THEN Head(table)[2] ELSE bound)
\* Material::Bind for a shader declaring the texture slots and sampler slots
\* given: a name the shader does not declare is skipped.
Bind(mat, textureSlots, samplerSlots) ==
    [textures |-> [s \in textureSlots |-> SlotAfter(mat.textureSRVs, s, NoHandle)],
     samplers |-> [s \in samplerSlots |-> SlotAfter(mat.samplers, s, NoHandle)]]

\* ------------------------------------------------------------ program state
VARIABLES
    pc,              \* where the run loop is: "constructed", "update", "draw", "done"
    lightCount,      \* Game::lightCount
    lights,          \* Game::lights (std::vector<Light>), 1-based here
    randState,       \* state of the C library's rand()
    argOrder,        \* argument evaluation order of the build
    camera,          \* Game::camera: NoCamera (null) or the Camera
    width, height,   \* DXCore::width, DXCore::height
    showWorldEditor, \* Game::showWorldEditor
    entities,        \* Game::entities: the transforms of the entities
    quitRequested,   \* Quit() was called
    edits,           \* debug-UI drags that changed a value so far (at most MaxEdits)
    drawLog,         \* the pipeline calls of the current frame's Draw, in order
    genRun,          \* GenerateLights calls in a row since the last light edit (0, 1, 2)
    fault,           \* a null Camera was dereferenced or lights read out of range
    updateLog,       \* the steps of the current frame's Update, in order
    blendState,      \* the output merger's blend state
    depthStencilState, \* the output merger's depth/stencil state
    material,        \* the binding tables of the Material being set up
    history          \* the last handle registered under each name of that Material

gameVars ==
    <<pc, lightCount, lights, randState, argOrder, camera, width, height,
      showWorldEditor, entities, quitRequested, edits, drawLog, genRun, fault,
      updateLog, blendState, depthStencilState>>
matVars == <<material, history>>
vars == <<gameVars, matVars>>

NoCamera == [exists |-> FALSE, aspect |-> <<0, 1>>]
\* The state OMSetBlendState(0, ...) and OMSetDepthStencilState(0, ...) select.
DefaultState == "default"

\* Window client sizes the resize message can carry.
Sizes == {<<1280, 720>>, <<800, 600>>}

RECURSIVE Gcd(_, _)
Gcd(a, b) == IF b = 0 THEN a ELSE Gcd(b, a % b)
\* The float w / (float)h, as the fraction in lowest terms.
AspectSwapped(w, h) == <<h \div Gcd(w, h), w \div Gcd(w, h)>>
Aspect(w, h) == <<w \div Gcd(w, h), h \div Gcd(w, h)>>

\* std::make_shared<Camera>(0, 0, -10, 3, 1, aspect)
MakeCamera(w, h) == [exists |-> TRUE, aspect |-> Aspect(w, h)]
\* Camera::UpdateProjectionMatrix(aspect)
UpdateProjectionMatrix(cam, w, h) == [cam EXCEPT !.aspect = Aspect(w, h)]

\* The six entities LoadAssetsAndCreateEntities creates, with their positions.
InitialEntities ==
    [i \in 1..6 |->
        [Position |-> Vec3(-600 + 200 * (i - 1), 200, 0), Scale |-> Vec3(100, 100, 100)]]

Init ==
    /\ pc = "constructed"
    /\ lightCount = 0
    /\ lights = <<>>
    /\ randState \in 0..RAND_MAX
    /\ argOrder \in ArgOrders
    /\ camera = NoCamera
    /\ width = 1280
    /\ height = 720
    /\ showWorldEditor \in BOOLEAN
    /\ entities = <<>>
    /\ quitRequested = FALSE
    /\ edits = 0
    /\ drawLog = <<>>
    /\ genRun = 0
    /\ fault = FALSE
    /\ updateLog = <<>>
    /\ blendState = DefaultState
    /\ depthStencilState = DefaultState
    /\ material = NewMaterial
    /\ history = NoHistory

\* Game::Init with capacity c: entities, lights, then the Camera.
GameInit(c) ==
    /\ pc = "constructed"
    /\ LET g == GenerateLights(lights, c, randState, argOrder) IN
        /\ lights' = g.lights
        /\ randState' = g.randState
    /\ lightCount' = c
    /\ entities' = InitialEntities
    /\ camera' = MakeCamera(width, height)
    /\ genRun' = 1
    /\ pc' = "update"
    /\ UNCHANGED <<argOrder, width, height, showWorldEditor, quitRequested,
                   edits, drawLog, fault, updateLog, blendState, depthStencilState,
                   matVars>>

\* OnResize without the Camera guard.
ResizeCameraUnguarded(cam, w, h) ==
    IF cam = NoCamera
    THEN [camera |-> cam, fault |-> TRUE]
    ELSE [camera |-> UpdateProjectionMatrix(cam, w, h), fault |-> FALSE]
\* OnResize passing height / width.
ResizeCameraSwapped(cam, w, h) ==
    IF cam # NoCamera
    THEN [camera |-> [cam EXCEPT !.aspect = AspectSwapped(w, h)], fault |-> FALSE]
    ELSE [camera |-> cam, fault |-> FALSE]
\* if (camera) camera->UpdateProjectionMatrix(width / (float)height)
ResizeCamera(cam, w, h) ==
    IF cam # NoCamera
    THEN [camera |-> UpdateProjectionMatrix(cam, w, h), fault |-> FALSE]
    ELSE [camera |-> cam, fault |-> FALSE]

\* Game::OnResize after the window's client area became w x h.
OnResize(w, h) ==
    /\ pc \in {"constructed", "update", "draw"}
    /\ width' = w
    /\ height' = h
    /\ LET r == ResizeCamera(camera, w, h) IN
        /\ camera' = r.camera
        /\ fault' = (fault \/ r.fault)
    /\ UNCHANGED <<pc, lightCount, lights, randState, argOrder, showWorldEditor,
                   entities, quitRequested, edits, drawLog, genRun, updateLog,
                   blendState, depthStencilState, matVars>>

\* ------------------------------------------------------------ debug UI
\* The widgets of the light editor and of the entity editor.
LightWidgets == {"Direction", "Range", "Position", "Intensity", "Color", "Spot Falloff"}
EntityWidgets == {"EntityPosition", "EntityScale"}
\* The component a drag changes: of a widget editing three floats (DragFloat3,
\* ColorEdit3) the y (green) one; the other widgets hold one float.
Components(widget) ==
    IF widget \in {"Direction", "Position", "Color", "EntityPosition", "EntityScale"}
    THEN {2} ELSE {1}
\* The value a drag ends on: the far end of the widget's [v_min, v_max].
DragValue(widget) ==
    CASE widget = "Direction" -> Hundredths(314)
      [] widget = "Range" -> Hundredths(100000)
      [] widget = "Position" -> Hundredths(-1000)
      [] widget = "Intensity" -> Hundredths(10000)
      [] widget = "Color" -> Hundredths(100)
      [] widget = "Spot Falloff" -> Hundredths(1000)
      [] widget = "EntityPosition" -> Hundredths(1000)
      [] widget = "EntityScale" -> Hundredths(1)

\* The drags of a set of widgets: a widget and the component dragged.
Drags(widgets) == {d \in widgets \X (1..3) : d[2] \in Components(d[1])}

\* What the user does to the debug UI in one frame: nothing, one click on the
\* "Show World Editor" checkbox, or one drag of one widget of one open tree node:
\* that of the first directional light, the first point light, the first entity
\* or the last.
NoInput == [kind |-> "none", index |-> 0, widget |-> "", comp |-> 1]
UiInputs ==
    {NoInput, [NoInput EXCEPT !.kind = "toggleWorldEditor"]}
    \cup {[kind |-> "light", index |-> i, widget |-> d[1], comp |-> d[2]] :
             i \in {1, 4}, d \in Drags(LightWidgets)}
    \cup {[kind |-> "entity", index |-> i, widget |-> d[1], comp |-> d[2]] :
             i \in {1, 6}, d \in Drags(EntityWidgets)}

\* LightsImGui with "light->Type = LIGHT_TYPE_SPOT" where a comparison was meant.
LightsImGuiRetag(light, widget, comp) ==
    [light EXCEPT !.Type = LIGHT_TYPE_SPOT]
\* LightsImGui that also shows Position for a directional light.
LightsImGuiAllShown(light, widget, comp) ==
    CASE widget = "Direction" -> [light EXCEPT !.Direction[comp] = DragValue(widget)]
      [] widget = "Range" -> [light EXCEPT !.Range = DragValue(widget)]
      [] widget = "Position" -> [light EXCEPT !.Position[comp] = DragValue(widget)]
      [] widget = "Intensity" -> [light EXCEPT !.Intensity = DragValue(widget)]
      [] widget = "Color" -> [light EXCEPT !.Color[comp] = DragValue(widget)]
      [] OTHER -> light
\* Game::LightsImGui with the light's tree node open and `widget` dragged.
LightsImGui(light, widget, comp) ==
    LET dir == light.Type \in {LIGHT_TYPE_DIRECTIONAL, LIGHT_TYPE_SPOT}
        range == light.Type \in {LIGHT_TYPE_POINT, LIGHT_TYPE_SPOT}
        position == light.Type \in {LIGHT_TYPE_POINT, LIGHT_TYPE_SPOT}
        spotFalloff == light.Type = LIGHT_TYPE_SPOT
    IN  CASE widget = "Direction" /\ dir ->
                [light EXCEPT !.Direction[comp] = DragValue(widget)]
          [] widget = "Range" /\ range ->
                [light EXCEPT !.Range = DragValue(widget)]
          [] widget = "Position" /\ position ->
                [light EXCEPT !.Position[comp] = DragValue(widget)]
          [] widget = "Intensity" ->
                [light EXCEPT !.Intensity = DragValue(widget)]
          [] widget = "Color" ->
                [light EXCEPT !.Color[comp] = DragValue(widget)]
          [] widget = "Spot Falloff" /\ spotFalloff ->
                [light EXCEPT !.Range = DragValue(widget)]
          [] OTHER -> light

\* Game::EntityImGui with the entity's tree node open and `widget` dragged.
EntityImGui(entity, widget, comp) ==
    CASE widget = "EntityPosition" ->
            [entity EXCEPT !.Position[comp] = DragValue(widget)]
      [] widget = "EntityScale" ->
            [entity EXCEPT !.Scale[comp] = DragValue(widget)]
      [] OTHER -> entity

\* Game::UpdateImGuiWorldEditor: the light collection after the editor ran.
WorldEditorLights(ls, ui) ==
    IF ui.kind = "light" /\ ui.index \in 1..Len(ls)
    THEN [ls EXCEPT ![ui.index] = LightsImGui(ls[ui.index], ui.widget, ui.comp)]
    ELSE ls
\* Game::UpdateImGuiWorldEditor: the entities after the editor ran.
WorldEditorEntities(es, ui) ==
    IF ui.kind = "entity" /\ ui.index \in 1..Len(es)
    THEN [es EXCEPT ![ui.index] = EntityImGui(es[ui.index], ui.widget, ui.comp)]
    ELSE es

\* The input is a drag this frame's UI offers: the light has a tree node, and
\* the run's budget of drags is not used up.
Offered(ui) ==
    /\ ui.kind = "light" => ui.index \in 1..Len(lights)
    /\ ui.kind \in {"light", "entity"} => edits < MaxEdits

\* ------------------------------------------------------------ Update
\* Update running the key checks before the debug UI.
UpdateLightsKeysFirst(ls0, count, s, order, shown, ui, tab) ==
    LET g == IF tab THEN GenerateLights(ls0, count, s, order)
                    ELSE [lights |-> ls0, randState |-> s]
        ls1 == IF shown THEN WorldEditorLights(g.lights, ui) ELSE g.lights
    IN  [lights |-> ls1, randState |-> g.randState]
\* The light collection through one Update: the world editor (when shown),
\* then GenerateLights when TAB was pressed.
UpdateLights(ls0, count, s, order, shown, ui, tab) ==
    LET ls1 == IF shown THEN WorldEditorLights(ls0, ui) ELSE ls0
        g == IF tab THEN GenerateLights(ls1, count, s, order)
                    ELSE [lights |-> ls1, randState |-> s]
    IN  [lights |-> g.lights, randState |-> g.randState]

\* The steps Update takes, in the order of its statements; changed: a widget
\* of the light editor wrote a new value into a light.
UpdateSteps(shown, changed, esc, tab) ==
    <<"UpdateImGui", "UpdateImGuiWindowManager">>
    \o (IF shown THEN <<"UpdateImGuiWorldEditor">> ELSE <<>>)
    \o (IF changed THEN <<"LightsImGui wrote a light">> ELSE <<>>)
    \o <<"Camera::Update", "KeyDown VK_ESCAPE">>
    \o (IF esc THEN <<"Quit">> ELSE <<>>)
    \o <<"KeyPress VK_TAB">>
    \o (IF tab THEN <<"GenerateLights">> ELSE <<>>)

\* Game::Update with this frame's input: the UI interaction, ESC down, TAB pressed.
Update(ui, esc, tab) ==
    /\ pc = "update"
    /\ Offered(ui)
    /\ LET shown == IF ui.kind = "toggleWorldEditor"
                    THEN ~showWorldEditor ELSE showWorldEditor
           edited == IF shown THEN WorldEditorLights(lights, ui) ELSE lights
           u == UpdateLights(lights, lightCount, randState, argOrder, shown, ui, tab)
       IN  /\ showWorldEditor' = shown
           /\ entities' = IF shown THEN WorldEditorEntities(entities, ui) ELSE entities
           /\ lights' = u.lights
           /\ randState' = u.randState
           /\ genRun' = IF tab THEN (IF edited # lights THEN 1
                                     ELSE IF genRun < 2 THEN genRun + 1 ELSE 2)
                        ELSE IF edited # lights THEN 0 ELSE genRun
           /\ edits' = IF edited # lights \/ entities' # entities
                       THEN edits + 1 ELSE edits
           /\ updateLog' = UpdateSteps(shown, edited # lights, esc, tab)
    /\ fault' = (fault \/ camera = NoCamera)
    /\ quitRequested' = (quitRequested \/ esc)
    /\ drawLog' = <<>>
    /\ pc' = "draw"
    /\ UNCHANGED <<lightCount, argOrder, camera, width, height, blendState,
                   depthStencilState, matVars>>

\* ------------------------------------------------------------ Draw
\* One call into the pipeline, as Draw issues it. pass names the step of Draw
\* the call belongs to; index is the entity, light or string it is for (0:
\* none); count is the light count passed and data the light records passed;
\* value is the alpha or depth of a clear, or the state pointer (0: null) of
\* OMSetBlendState and OMSetDepthStencilState.
Cmd(pass, op) ==
    [pass |-> pass, op |-> op, index |-> 0, count |-> 0, data |-> <<>>, value |-> 0,
     scale |-> <<0, 1>>, translation |-> <<0, 0, 0>>, color |-> <<0, 0, 0>>]

\* ClearRenderTargetView with { 0, 0, 0, 1 }, ClearDepthStencilView with depth 1.
ClearCmds ==
    <<[Cmd("clear", "ClearRenderTargetView") EXCEPT !.color = <<0, 0, 0>>, !.value = 1],
      [Cmd("clear", "ClearDepthStencilView") EXCEPT !.value = 1]>>

\* The records SetData copies: sizeof(Light) * count bytes from &lights[0].
LightData(ls, count) == SubSeq(ls, 1, IF count < Len(ls) THEN count ELSE Len(ls))

\* The entity loop pushing the per-frame data for the first entity only.
EntityCmdsPushOnce(i, ls, count) ==
    IF i = 1
    THEN <<[Cmd("entity", "SetData lights") EXCEPT
                !.index = i, !.count = count, !.data = LightData(ls, count)],
           [Cmd("entity", "SetInt lightCount") EXCEPT !.index = i, !.count = count],
           [Cmd("entity", "SetFloat3 cameraPosition") EXCEPT !.index = i],
           [Cmd("entity", "SetInt SpecIBLTotalMipLevels") EXCEPT !.index = i],
           [Cmd("entity", "CopyBufferData perFrame") EXCEPT !.index = i],
           [Cmd("entity", "GameEntity::Draw") EXCEPT !.index = i]>>
    ELSE <<[Cmd("entity", "GameEntity::Draw") EXCEPT !.index = i]>>
\* The body of the entity loop for entity i: the per-frame data, then the draw.
EntityCmds(i, ls, count) ==
    <<[Cmd("entity", "SetData lights") EXCEPT
            !.index = i, !.count = count, !.data = LightData(ls, count)],
      [Cmd("entity", "SetInt lightCount") EXCEPT !.index = i, !.count = count],
      [Cmd("entity", "SetFloat3 cameraPosition") EXCEPT !.index = i],
      [Cmd("entity", "SetInt SpecIBLTotalMipLevels") EXCEPT !.index = i],
      [Cmd("entity", "CopyBufferData perFrame") EXCEPT !.index = i],
      [Cmd("entity", "GameEntity::Draw") EXCEPT !.index = i]>>

RECURSIVE EntityLoop(_, _, _, _)
EntityLoop(i, n, ls, count) ==
    IF i > n THEN <<>> ELSE EntityCmds(i, ls, count) \o EntityLoop(i + 1, n, ls, count)

\* The sphere drawn for light i: scale Range / 20, translation Position,
\* color Color * Intensity.
LightCmd(i, light) ==
    [Cmd("lights", "SetBuffersAndDraw") EXCEPT
        !.index = i,
        !.scale = <<light.Range, 20>>,
        !.translation = light.Position,
        !.color = <<light.Color[1] * light.Intensity,
                    light.Color[2] * light.Intensity,
                    light.Color[3] * light.Intensity>>]

\* The loop of DrawPointLights over lights[i-1], i in 1..count.
RECURSIVE PointLightLoop(_, _, _)
PointLightLoop(ls, i, count) ==
    IF i > count \/ i > Len(ls) THEN <<>>
    ELSE IF ls[i].Type # LIGHT_TYPE_POINT THEN PointLightLoop(ls, i + 1, count)
    ELSE <<LightCmd(i, ls[i])>> \o PointLightLoop(ls, i + 1, count)

\* DrawPointLights drawing every light, whatever its type.
DrawPointLightsAll(ls, count) ==
    <<Cmd("lights", "SetShader lightVS"), Cmd("lights", "SetShader lightPS"),
      Cmd("lights", "SetMatrix4x4 view"), Cmd("lights", "SetMatrix4x4 projection")>>
    \o [i \in 1..Len(ls) |-> LightCmd(i, ls[i])]
\* Game::DrawPointLights
DrawPointLights(ls, count) ==
    <<Cmd("lights", "SetShader lightVS"), Cmd("lights", "SetShader lightPS"),
      Cmd("lights", "SetMatrix4x4 view"), Cmd("lights", "SetMatrix4x4 projection")>>
    \o PointLightLoop(ls, 1, count)

\* DrawUI without the reset of the render states.
DrawUINoReset ==
    <<Cmd("overlay", "SpriteBatch::Begin")>>
    \o [k \in 1..9 |-> [Cmd("overlay", "DrawString") EXCEPT !.index = k]]
    \o <<Cmd("overlay", "SpriteBatch::End")>>
\* Game::DrawUI: the sprite batch with its nine strings, then the state reset.
DrawUI ==
    <<Cmd("overlay", "SpriteBatch::Begin")>>
    \o [k \in 1..9 |-> [Cmd("overlay", "DrawString") EXCEPT !.index = k]]
    \o <<Cmd("overlay", "SpriteBatch::End"),
         Cmd("overlay", "OMSetBlendState"),
         Cmd("overlay", "OMSetDepthStencilState")>>

SkyCmds == <<Cmd("sky", "Sky::Draw")>>
ImGuiCmds == <<Cmd("imgui", "ImGui::Render"), Cmd("imgui", "ImGui_ImplDX11_RenderDrawData")>>
PresentCmds == <<Cmd("present", "Present")>>
RebindCmds == <<Cmd("rebind", "OMSetRenderTargets")>>

\* Draw clearing after the entities were drawn.
DrawCmdsLateClear(ls, count, nEntities) ==
    EntityLoop(1, nEntities, ls, count) \o ClearCmds \o DrawPointLights(ls, count)
    \o SkyCmds \o DrawUI \o ImGuiCmds \o PresentCmds \o RebindCmds
\* Draw with the sky drawn before the entities.
DrawCmdsSkyFirst(ls, count, nEntities) ==
    ClearCmds \o SkyCmds \o EntityLoop(1, nEntities, ls, count)
    \o DrawPointLights(ls, count) \o DrawUI \o ImGuiCmds \o PresentCmds \o RebindCmds
\* Game::Draw: the calls of one frame, in the order the code issues them.
DrawCmds(ls, count, nEntities) ==
    ClearCmds \o EntityLoop(1, nEntities, ls, count) \o DrawPointLights(ls, count)
    \o SkyCmds \o DrawUI \o ImGuiCmds \o PresentCmds \o RebindCmds

\* The blend and depth/stencil state after the calls of a log, from states
\* blend and depth: the sprite batch sets its own when it ends ("sprite batch
\* changes these"), OMSetBlendState and OMSetDepthStencilState with a null
\* state select the default.
RECURSIVE PipelineAfter(_, _, _)
PipelineAfter(log, blend, depth) ==
    IF log = <<>> THEN [blend |-> blend, depth |-> depth]
    ELSE LET c == Head(log) IN
         CASE c.op = "SpriteBatch::End" ->
                PipelineAfter(Tail(log), "AlphaBlend", "DepthNone")
           [] c.op = "OMSetBlendState" /\ c.value = 0 ->
                PipelineAfter(Tail(log), DefaultState, depth)
           [] c.op = "OMSetDepthStencilState" /\ c.value = 0 ->
                PipelineAfter(Tail(log), blend, DefaultState)
           [] OTHER -> PipelineAfter(Tail(log), blend, depth)

\* Draw with the TAB check of Update moved into it.
DrawRegenerating ==
    /\ pc = "draw"
    /\ drawLog' = DrawCmds(lights, lightCount, Len(entities))
    /\ LET g == GenerateLights(lights, lightCount, randState, argOrder) IN
        /\ lights' = g.lights
        /\ randState' = g.randState
    /\ fault' = (fault \/ camera = NoCamera \/ lightCount > Len(lights))
    /\ pc' = IF quitRequested THEN "done" ELSE "update"
    /\ UNCHANGED <<lightCount, argOrder, camera, width, height, showWorldEditor,
                   entities, quitRequested, edits, genRun, updateLog, blendState,
                   depthStencilState, matVars>>
\* Game::Draw; the run loop ends after the frame in which Quit() was called.
Draw ==
    /\ pc = "draw"
    /\ LET cmds == DrawCmds(lights, lightCount, Len(entities))
           after == PipelineAfter(cmds, blendState, depthStencilState)
       IN  /\ drawLog' = cmds
           /\ blendState' = after.blend
           /\ depthStencilState' = after.depth
    /\ fault' = (fault \/ camera = NoCamera \/ lightCount > Len(lights))
    /\ updateLog' = <<>>
    /\ pc' = IF quitRequested THEN "done" ELSE "update"
    /\ UNCHANGED <<lightCount, lights, randState, argOrder, camera, width, height,
                   showWorldEditor, entities, quitRequested, edits, genRun, matVars>>

\* ------------------------------------------------------------ specification
\* ------------------------------------------------------------ Material setup
\* One AddTextureSRV call on the Material being set up while assets load.
MaterialAddTextureSRV(name, handle) ==
    /\ pc = "constructed"
    /\ material' = [material EXCEPT
                        !.textureSRVs = AddTextureSRV(@, name, handle)]
    /\ history' = [history EXCEPT
                       !.textureSRVs[name] = handle,
                       !.overwrote = @ \/ history.textureSRVs[name]
                                              \notin {NoHandle, handle}]
    /\ UNCHANGED gameVars
\* One AddSampler call on the Material being set up.
MaterialAddSampler(name, handle) ==
    /\ pc = "constructed"
    /\ material' = [material EXCEPT !.samplers = AddSampler(@, name, handle)]
    /\ history' = [history EXCEPT
                       !.samplers[name] = handle,
                       !.overwrote = @ \/ history.samplers[name]
                                              \notin {NoHandle, handle}]
    /\ UNCHANGED gameVars

\* The setup of one Material, any names and handles in any order.
MatInit ==
    /\ Init
    /\ randState = 0
    /\ argOrder = "ltr"
    /\ showWorldEditor = FALSE
MatNext ==
    \/ \E n \in TextureNames, h \in TextureHandles : MaterialAddTextureSRV(n, h)
    \/ \E n \in SamplerNames, h \in SamplerHandles : MaterialAddSampler(n, h)
MatSpec == MatInit /\ [][MatNext]_vars

\* ------------------------------------------------------------ run loop
Next ==
    \/ \E c \in Capacities : GameInit(c)
    \/ \E size \in Sizes : OnResize(size[1], size[2])
    \/ \E ui \in UiInputs, esc \in BOOLEAN, tab \in BOOLEAN : Update(ui, esc, tab)
    \/ Draw

Spec == Init /\ [][Next]_vars

\* ------------------------------------------------------------ light claims
\* The type tags of a collection, in order.
TypeTags(ls) == [i \in 1..Len(ls) |-> ls[i].Type]
\* The indices of a collection tagged t.
Tagged(ls, t) == {i \in 1..Len(ls) : ls[i].Type = t}
\* GenerateLights was the last operation that wrote the collection.
Generated == pc # "constructed" /\ genRun >= 1

\* C1: for every capacity C >= 3, when GenerateLights has returned the
\* collection holds exactly C lights, those at the code's indices 0, 1, 2
\* tagged Directional and those at indices 3..C-1 tagged Point.
C1_GenerateLightsShape ==
    (Generated /\ lightCount >= 3) =>
        /\ Len(lights) = lightCount
        /\ \A i \in 1..3 : lights[i].Type = LIGHT_TYPE_DIRECTIONAL
        /\ \A i \in 4..lightCount : lights[i].Type = LIGHT_TYPE_POINT
\* A generation for the largest capacity of the model: Point lights exist.
C1_Witness ==
    /\ Generated
    /\ lightCount = MaxCapacity
    /\ Len(lights) > 3
    /\ lights[Len(lights)].Type = LIGHT_TYPE_POINT

\* C2: in every state after Init, whatever Update (UI edits, TAB), Draw and
\* OnResize did, exactly 3 lights are tagged Directional, every other light is
\* tagged Point, and none is tagged Spot.
C2_ThreeDirectionalRestPoint ==
    pc # "constructed" =>
        /\ Cardinality(Tagged(lights, LIGHT_TYPE_DIRECTIONAL)) = 3
        /\ Tagged(lights, LIGHT_TYPE_SPOT) = {}
        /\ \A i \in 1..Len(lights) :
              i \notin Tagged(lights, LIGHT_TYPE_DIRECTIONAL)
                  => lights[i].Type = LIGHT_TYPE_POINT
\* A frame was drawn after a UI edit of a light, and the window was resized.
C2_Witness ==
    /\ pc = "update"
    /\ drawLog # <<>>
    /\ edits >= 1
    /\ genRun = 0
    /\ width = 800

C4_RegenerationIdempotentInShape ==
    [][(genRun' >= 1 /\ pc' # "constructed") =>
          /\ lightCount' >= 3 =>
                TypeTags(lights') =
                    [i \in 1..lightCount' |->
                        IF i <= 3 THEN LIGHT_TYPE_DIRECTIONAL ELSE LIGHT_TYPE_POINT]
          /\ (genRun' = 2 /\ genRun >= 1) => TypeTags(lights') = TypeTags(lights)]_vars
\* Two calls in a row, in a run in which the UI had edited a light before.
C4_Witness ==
    /\ genRun = 2
    /\ edits >= 1
    /\ entities = InitialEntities
    /\ lightCount > 3

\* C5: when GenerateLights has returned, the three Directional lights have the
\* fixed values (1,-1,1) / 0.8 / 1.0, (-1,-0.25,0) / 0.2 / 1.0 and
\* (0,-1,1) / 0.2 / 1.0 for direction / color / intensity, whatever the random
\* source returned and whatever the lights held before.
C5_DirectionalValuesFixed ==
    Generated =>
        /\ lights[1].Direction = Vec3(100, -100, 100)
        /\ lights[1].Color = Vec3(80, 80, 80)
        /\ lights[2].Direction = Vec3(-100, -25, 0)
        /\ lights[2].Color = Vec3(20, 20, 20)
        /\ lights[3].Direction = Vec3(0, -100, 100)
        /\ lights[3].Color = Vec3(20, 20, 20)
        /\ \A i \in 1..3 : lights[i].Intensity = Hundredths(100)
\* A regeneration after the UI changed a value of a Directional light (with
\* capacity 3 every light is Directional, and no entity was edited).
C5_Witness ==
    /\ Generated
    /\ edits >= 1
    /\ entities = InitialEntities
    /\ lightCount = 3

\* C6: every Point light GenerateLights produced has position.x and position.z
\* in [-10, 10], position.y in [-5, 5], each color channel in [0, 1], range in
\* [5, 10] and intensity in [0.1, 3.0], for every value of rand().
InRange(v, lo, hi) == Hundredths(lo) <= v /\ v <= Hundredths(hi)
C6_PointLightRanges ==
    Generated =>
        \A i \in Tagged(lights, LIGHT_TYPE_POINT) :
            /\ InRange(lights[i].Position[1], -1000, 1000)
            /\ InRange(lights[i].Position[2], -500, 500)
            /\ InRange(lights[i].Position[3], -1000, 1000)
            /\ \A k \in 1..3 : InRange(lights[i].Color[k], 0, 100)
            /\ InRange(lights[i].Range, 500, 1000)
            /\ InRange(lights[i].Intensity, 10, 300)
\* A generated Point light whose range came from rand() = RAND_MAX and another
\* value from rand() = 0: both ends of the intervals occur.
C6_Witness ==
    /\ Generated
    /\ \E i \in Tagged(lights, LIGHT_TYPE_POINT) :
          /\ lights[i].Range = Hundredths(1000)
          /\ \/ lights[i].Intensity = Hundredths(10)
             \/ lights[i].Position[2] = Hundredths(-500)
             \/ lights[i].Color[1] = Hundredths(0)

\* ------------------------------------------------------------ frame claims
\* A frame was drawn and nothing has run since but OnResize.
FrameDrawn == drawLog # <<>>
IsClear(c) == c.op \in {"ClearRenderTargetView", "ClearDepthStencilView"}
\* The calls that put content into the frame.
IsDrawCall(c) ==
    c.op \in {"GameEntity::Draw", "SetBuffersAndDraw", "Sky::Draw", "DrawString",
              "SpriteBatch::End", "ImGui_ImplDX11_RenderDrawData"}
IsMarkerDraw(c) == c.op = "SetBuffersAndDraw"
\* The positions of a log holding the call op.
Calls(log, op) == {i \in 1..Len(log) : log[i].op = op}

\* C7: in every Draw the color target is cleared to opaque black and the
\* depth/stencil target to depth 1.0 before the first draw call of the frame,
\* and no clear follows a draw call of the frame.
C7_ClearPrecedesDraws ==
    FrameDrawn =>
        /\ \E i \in Calls(drawLog, "ClearRenderTargetView") :
              drawLog[i].color = <<0, 0, 0>> /\ drawLog[i].value = 1
        /\ \E i \in Calls(drawLog, "ClearDepthStencilView") : drawLog[i].value = 1
        /\ \A i, j \in 1..Len(drawLog) :
              (IsClear(drawLog[i]) /\ IsDrawCall(drawLog[j])) => i < j
\* A frame with entity, light-marker, sky, overlay and debug-UI draws.
C7_Witness ==
    /\ FrameDrawn
    /\ \A op \in {"GameEntity::Draw", "SetBuffersAndDraw", "Sky::Draw", "DrawString",
                  "ImGui_ImplDX11_RenderDrawData"} : Calls(drawLog, op) # {}

\* The passes of a log in order, each run of calls of one pass taken once.
RECURSIVE Passes(_)
Passes(log) ==
    IF log = <<>> THEN <<>>
    ELSE IF Len(log) >= 2 /\ log[1].pass = log[2].pass THEN Passes(Tail(log))
    ELSE <<log[1].pass>> \o Passes(Tail(log))

\* C8: every Draw issues its passes in the order clear, entities, light
\* markers, sky, overlay text, debug UI, present, each exactly once; every
\* entity is drawn once, before the sky and the overlay; Present is called once,
\* and the only call after it re-binds the render targets.
C8_PassOrder ==
    FrameDrawn =>
        /\ Passes(drawLog) =
              <<"clear", "entity", "lights", "sky", "overlay", "imgui", "present",
                "rebind">>
        /\ \A e \in 1..Len(entities) :
              Cardinality({i \in Calls(drawLog, "GameEntity::Draw") :
                              drawLog[i].index = e}) = 1
        /\ \A i \in Calls(drawLog, "GameEntity::Draw"),
              j \in Calls(drawLog, "Sky::Draw") \cup Calls(drawLog, "SpriteBatch::Begin") :
              i < j
        /\ Calls(drawLog, "Present") = {Len(drawLog) - 1}
        /\ Calls(drawLog, "OMSetRenderTargets") = {Len(drawLog)}
\* The last frame of a run: quit was requested and the frame is complete.
C8_Witness ==
    /\ pc = "done"
    /\ FrameDrawn
    /\ Cardinality(Calls(drawLog, "GameEntity::Draw")) = 6

C10_ResizeGuarded ==
    /\ ~fault
    /\ pc = "constructed" => camera = NoCamera
    /\ camera # NoCamera => camera.aspect[1] * height = camera.aspect[2] * width
\* A resize to 800 x 600 arrived before Init: there is still no Camera.
C10_Witness ==
    /\ pc = "constructed"
    /\ width = 800
    /\ camera = NoCamera
    /\ ~fault

\* The records and the count a log's frame-scope pushes and light markers were
\* made from are those of the collection ls and the capacity count.
SeesLights(log, ls, count) ==
    /\ \A k \in Calls(log, "SetData lights") :
          log[k].data = LightData(ls, count) /\ log[k].count = count
    /\ \A k \in Calls(log, "SetInt lightCount") : log[k].count = count
    /\ \A k \in Calls(log, "SetBuffersAndDraw") :
          /\ log[k].index \in 1..Len(ls)
          /\ log[k].translation = ls[log[k].index].Position
          /\ log[k].scale[1] = ls[log[k].index].Range

\* C11: the light collection, lightCount and the entities change only in
\* Update (after Init built them): every step taken while a Draw is pending or
\* a frame is complete leaves all three unchanged, and the draws of a frame are
\* made from the lights and the count as Update of that frame left them.
C11_MutationOnlyInUpdate ==
    [][/\ pc \notin {"constructed", "update"} =>
            /\ lights' = lights
            /\ lightCount' = lightCount
            /\ entities' = entities
       /\ (pc = "draw" /\ pc' # "draw") =>
            /\ Cardinality(Calls(drawLog', "GameEntity::Draw")) = Len(entities)
            /\ SeesLights(drawLog', lights, lightCount)
            /\ SeesLights(drawLog', lights', lightCount')]_vars
\* A frame whose Update moved an entity and whose Draw has run.
C11_Witness ==
    /\ pc = "update"
    /\ FrameDrawn
    /\ edits >= 1
    /\ entities # InitialEntities
    /\ SeesLights(drawLog, lights, lightCount)

\* The positions of a log where the call op is made for entity e.
EntityCalls(log, op, e) == {k \in Calls(log, op) : log[k].index = e}
\* The calls the per-entity pass makes for one entity, in the order of the code.
EntityPassOps ==
    <<"SetData lights", "SetInt lightCount", "SetFloat3 cameraPosition",
      "SetInt SpecIBLTotalMipLevels", "CopyBufferData perFrame", "GameEntity::Draw">>

\* C12: in a drawn frame every entity of the collection has exactly one write
\* of each frame-scope constant (the first lightCount light records, the light
\* count, the camera position, the specular mip-level count), one flush and
\* one draw, in that order, and the calls of entity e precede those of entity
\* e + 1: N entities make N pushes and N entity draws.
C12_PushOncePerEntity ==
    FrameDrawn =>
        /\ \A j \in 1..Len(EntityPassOps) :
              Cardinality(Calls(drawLog, EntityPassOps[j])) = Len(entities)
        /\ \A e \in 1..Len(entities) :
              /\ \A j \in 1..Len(EntityPassOps) :
                    Cardinality(EntityCalls(drawLog, EntityPassOps[j], e)) = 1
              /\ \A j \in 1..(Len(EntityPassOps) - 1) :
                    \A a \in EntityCalls(drawLog, EntityPassOps[j], e),
                       b \in EntityCalls(drawLog, EntityPassOps[j + 1], e) : a < b
              /\ \A a \in EntityCalls(drawLog, "SetData lights", e) :
                    /\ drawLog[a].count = lightCount
                    /\ drawLog[a].data = SubSeq(lights, 1, lightCount)
                    /\ \A b \in EntityCalls(drawLog, "GameEntity::Draw", e - 1) : b < a
              /\ \A a \in EntityCalls(drawLog, "SetInt lightCount", e) :
                    drawLog[a].count = lightCount
\* A frame of six entities in which each push carries four light records.
C12_Witness ==
    /\ FrameDrawn
    /\ Len(entities) = 6
    /\ Cardinality(Calls(drawLog, "CopyBufferData perFrame")) = 6
    /\ \A k \in Calls(drawLog, "SetData lights") : Len(drawLog[k].data) = 4

\* The calls of a log up to the last call of the overlay pass.
ThroughOverlay(log) ==
    SubSeq(log, 1, CHOOSE k \in 0..Len(log) :
                      /\ k # 0 => log[k].pass = "overlay"
                      /\ \A j \in (k + 1)..Len(log) : log[j].pass # "overlay")
\* The states a sprite batch or an earlier pass may have left selected.
PipelineStates == {DefaultState, "AlphaBlend", "DepthNone"}

\* C13: in a drawn frame the blend state and the depth/stencil state are the
\* defaults when the overlay pass has finished, whatever they were before it,
\* and are still the defaults at the end of the frame; both resets (a null
\* state) come after the end of the sprite batch and before ImGui::Render and
\* Present.
C13_OverlayResetsPipeline ==
    FrameDrawn =>
        /\ blendState = DefaultState
        /\ depthStencilState = DefaultState
        /\ \A b, d \in PipelineStates :
              PipelineAfter(ThroughOverlay(drawLog), b, d)
                  = [blend |-> DefaultState, depth |-> DefaultState]
        /\ \A op \in {"OMSetBlendState", "OMSetDepthStencilState"} :
              /\ Cardinality(Calls(drawLog, op)) = 1
              /\ \A r \in Calls(drawLog, op) :
                    /\ drawLog[r].value = 0
                    /\ drawLog[r].pass = "overlay"
                    /\ \A e \in Calls(drawLog, "SpriteBatch::End") : e < r
                    /\ \A g \in Calls(drawLog, "ImGui::Render")
                                  \cup Calls(drawLog, "Present") : r < g
\* A frame whose sprite batch ended, after which both states were reset.
C13_Witness ==
    /\ FrameDrawn
    /\ Calls(drawLog, "SpriteBatch::End") # {}
    /\ PipelineAfter(SubSeq(drawLog, 1, CHOOSE e \in Calls(drawLog, "SpriteBatch::End") : TRUE),
                     DefaultState, DefaultState).blend = "AlphaBlend"
    /\ blendState = DefaultState
    /\ depthStencilState = DefaultState

\* The last step of an Update was the call of GenerateLights.
Regenerated(log) == log # <<>> /\ log[Len(log)] = "GenerateLights"

\* C14: lightCount changes in no step but Init: GenerateLights, Update, Draw
\* and OnResize leave it unchanged. A regeneration in Update leaves the
\* collection GenerateLights builds from an empty one, whatever the
\* collection held before: no entry keeps a value the editor gave it.
C14_CapacityFixedCollectionReplaced ==
    [][/\ lightCount' # lightCount => (pc = "constructed" /\ pc' = "update")
       /\ (pc = "update" /\ Regenerated(updateLog')) =>
            /\ lightCount' = lightCount
            /\ lights' = GenerateLights(<<>>, lightCount, randState, argOrder).lights
            /\ \A i \in 1..Len(lights') :
                  /\ lights'[i].Intensity # DragValue("Intensity")
                  /\ lights'[i].Range # DragValue("Range")]_vars
\* A regeneration for the largest capacity after the editor changed a light.
C14_Witness ==
    /\ pc = "draw"
    /\ Regenerated(updateLog)
    /\ edits >= 1
    /\ entities = InitialEntities
    /\ lightCount = MaxCapacity
    /\ Len(lights) = MaxCapacity

\* The name-to-handle pairs of a table, whatever their order.
Bindings(table) == {table[i] : i \in 1..Len(table)}

\* C15: from every table a Material's setup reaches, registering texture A
\* with handle x and then B with y, A and B distinct names, leaves the same
\* name-to-handle pairs as registering B then A, and Bind leaves the same
\* handle in every slot.
C15_RegistrationCommutes ==
    \A a \in TextureNames, x \in TextureHandles, y \in TextureHandles :
        \A b \in TextureNames \ {a} :
            LET t == material.textureSRVs
                ab == AddTextureSRV(AddTextureSRV(t, a, x), b, y)
                ba == AddTextureSRV(AddTextureSRV(t, b, y), a, x)
            IN  /\ Bindings(ab) = Bindings(ba)
                /\ Len(ab) = Len(ba)
                /\ Bind([material EXCEPT !.textureSRVs = ab], TextureNames, SamplerNames)
                     = Bind([material EXCEPT !.textureSRVs = ba], TextureNames, SamplerNames)
\* A setup that registered NormalMap before Albedo, the reverse of the
\* program's order, and both with handles.
C15_Witness ==
    /\ Len(material.textureSRVs) >= 2
    /\ material.textureSRVs[1][1] = "NormalMap"
    /\ material.textureSRVs[2][1] = "Albedo"
    /\ Bind(material, TextureNames, SamplerNames).textures["Albedo"] # NoHandle

\* No two entries of a table share a name.
NamesUnique(table) ==
    \A i, j \in 1..Len(table) : table[i][1] = table[j][1] => i = j
\* The table binds exactly the names written, each to the last handle written.
LastWriteWins(table, last) ==
    /\ {table[i][1] : i \in 1..Len(table)} = {n \in DOMAIN last : last[n] # NoHandle}
    /\ \A i \in 1..Len(table) : table[i][2] = last[table[i][1]]

\* C16: after any sequence of AddTextureSRV and AddSampler calls every name
\* occurs at most once in its table and is bound to the handle of the last
\* call made for that name; Bind then leaves that handle in the name's slot.
C16_OverwriteReplaces ==
    /\ NamesUnique(material.textureSRVs)
    /\ NamesUnique(material.samplers)
    /\ LastWriteWins(material.textureSRVs, history.textureSRVs)
    /\ LastWriteWins(material.samplers, history.samplers)
    /\ Bind(material, TextureNames, SamplerNames)
         = [textures |-> history.textureSRVs, samplers |-> history.samplers]
\* A name was registered a second time with another handle, and every texture
\* name is registered.
C16_Witness ==
    /\ history.overwrote
    /\ Len(material.textureSRVs) = Cardinality(TextureNames)
    /\ history.textureSRVs["Albedo"] = "scratchedN"

\* C17: once Init has run, before every Draw and after it, the collection is
\* not empty and holds at least lightCount lights; the push of a drawn frame
\* copied exactly lightCount records and every light marker was drawn for an
\* index below lightCount, so no read went past the end of the collection.
C17_ReadsWithinCollection ==
    pc # "constructed" =>
        /\ Len(lights) >= 1
        /\ lightCount <= Len(lights)
        /\ FrameDrawn =>
              /\ \A k \in Calls(drawLog, "SetData lights") :
                    Len(drawLog[k].data) = drawLog[k].count
              /\ \A k \in Calls(drawLog, "SetBuffersAndDraw") :
                    drawLog[k].index <= lightCount /\ drawLog[k].index <= Len(lights)
\* A frame that read the collection up to its last light.
C17_Witness ==
    /\ FrameDrawn
    /\ lightCount = Len(lights)
    /\ \E k \in Calls(drawLog, "SetBuffersAndDraw") : drawLog[k].index = Len(lights)
    /\ \E k \in Calls(drawLog, "SetData lights") : Len(drawLog[k].data) = Len(lights)

\* The position of a step in an Update's log, 0 when it was not taken.
StepAt(log, step) ==
    IF \E k \in 1..Len(log) : log[k] = step
    THEN CHOOSE k \in 1..Len(log) : log[k] = step
    ELSE 0
\* Step a was not taken, or step b was taken after it.
Before(log, a, b) == StepAt(log, a) = 0 \/ StepAt(log, a) < StepAt(log, b)

\* C18: every Update runs the debug-UI pass with its editors, then the camera
\* update, then the quit check, then the regeneration check; an Update in
\* which the editor wrote a light and TAB was pressed leaves the collection
\* GenerateLights builds, without the value written, and the Draw that
\* follows is made from that collection.
C18_EditThenRegenerate ==
    [][/\ pc = "update" =>
            /\ Before(updateLog', "UpdateImGui", "UpdateImGuiWindowManager")
            /\ Before(updateLog', "UpdateImGuiWindowManager", "Camera::Update")
            /\ Before(updateLog', "UpdateImGuiWorldEditor", "Camera::Update")
            /\ Before(updateLog', "LightsImGui wrote a light", "Camera::Update")
            /\ Before(updateLog', "Camera::Update", "KeyDown VK_ESCAPE")
            /\ Before(updateLog', "Quit", "KeyPress VK_TAB")
            /\ Before(updateLog', "KeyDown VK_ESCAPE", "KeyPress VK_TAB")
            /\ StepAt(updateLog', "GenerateLights") \in {0, Len(updateLog')}
            /\ (StepAt(updateLog', "LightsImGui wrote a light") # 0
                    /\ Regenerated(updateLog')) =>
                    /\ lights' = GenerateLights(lights, lightCount, randState,
                                                argOrder).lights
                    /\ \A i \in 1..3 : lights'[i] = <<dir1, dir2, dir3>>[i]
                    /\ \A i \in 1..Len(lights') :
                          /\ lights'[i].Intensity # DragValue("Intensity")
                          /\ lights'[i].Range # DragValue("Range")
                          /\ lights'[i].Position[2] # DragValue("Position")
       /\ (pc = "draw" /\ StepAt(updateLog, "LightsImGui wrote a light") # 0
                /\ Regenerated(updateLog)) =>
            /\ lights' = lights
            /\ SeesLights(drawLog', lights, lightCount)]_vars
\* An Update in which the editor wrote a light and TAB regenerated them.
C18_Witness ==
    /\ pc = "draw"
    /\ StepAt(updateLog, "LightsImGui wrote a light") # 0
    /\ Regenerated(updateLog)
    /\ edits >= 1

\* What the light editor may have done to turn light a into light b: the type
\* tag is kept; of a Directional light position and range are kept, of a
\* Point light the direction.
EditorKept(a, b) ==
    /\ b.Type = a.Type
    /\ a.Type = LIGHT_TYPE_DIRECTIONAL => (b.Position = a.Position /\ b.Range = a.Range)
    /\ a.Type = LIGHT_TYPE_POINT => b.Direction = a.Direction

\* C19: whichever widget of whichever light is dragged, LightsImGui keeps the
\* light's type tag, keeps position and range of a Directional light and the
\* direction of a Point light; an Update that does not regenerate leaves the
\* collection with the same number of lights, each changed at most that way.
C19_EditorKeepsShape ==
    [][/\ \A i \in 1..Len(lights), d \in Drags(LightWidgets) :
             EditorKept(lights[i], LightsImGui(lights[i], d[1], d[2]))
       /\ (pc = "update" /\ ~Regenerated(updateLog')) =>
             /\ Len(lights') = Len(lights)
             /\ \A i \in 1..Len(lights) : EditorKept(lights[i], lights'[i])]_vars
\* The editor turned the first Directional light; it is still Directional and
\* where dir1 was placed.
C19_Witness ==
    /\ genRun = 0
    /\ Len(lights) >= 1
    /\ lights[1].Direction[2] = DragValue("Direction")
    /\ lights[1].Type = LIGHT_TYPE_DIRECTIONAL
    /\ lights[1].Position = dir1.Position

\* C20: no operation of a run dereferences a missing Camera: none has done so
\* in any reachable state, and whenever an Update or a Draw is due, has run or
\* the loop has ended, the Camera Init created exists.
C20_CameraNeverMissing ==
    /\ ~fault
    /\ pc \in {"update", "draw", "done"} => camera # NoCamera
    /\ (updateLog # <<>> \/ FrameDrawn) => camera # NoCamera
\* A run to its end with the window resized to 800 x 600 on the way.
C20_Witness ==
    /\ pc = "done"
    /\ FrameDrawn
    /\ width = 800
    /\ camera # NoCamera
    /\ camera.aspect[1] * 600 = camera.aspect[2] * 800
    /\ ~fault

====
